---- MODULE Spec2Model ----
(***************************************************************************)
(* Model of app.py, the Streamlit labeler of final_output_2: the label     *)
(* mapping of one reviewer (st.session_state.labels_dict), its CSV file in *)
(* the GitHub repository, and the navigation / review state of a session.  *)
(* One action is one reviewer interaction, i.e. the script run(s) of       *)
(* main() that the interaction triggers, up to the next idle page.         *)
(***************************************************************************)
EXTENDS Integers, Sequences, FiniteSets, TLC

\* ------------------------------------------------------------------ bounds
\* Reviewer interactions explored in one behaviour.
MaxSteps == 5
\* Browser sessions (fresh st.session_state) explored in one behaviour.
MaxSessions == 2
\* The reviewer picks among the first NumClusters entries of CLUSTERS.
NumClusters == 3
\* The reviewer presses "none" and NumPressed of the substantive buttons.
NumPressed == 2
\* Saves each of two concurrent sessions makes in one behaviour.
MaxSaves == 2
\* Lines of a manifest whose documents are put in order.
MaxEntries == 2
\* Lines of a manifest whose destinations are read.
MaxLines == 4

\* --------------------------------------------------------------- constants
CLUSTERS == <<"health", "civil", "climate", "culture", "digital", "food">>
LABEL_COLS == <<"NLP", "WUDAP", "ETHICS", "ENVIRO", "OPERATIONS", "none">>

Labels == {LABEL_COLS[i] : i \in 1..Len(LABEL_COLS)}
\* LABEL_COLS[:-1]
Substantive == {LABEL_COLS[i] : i \in 1..(Len(LABEL_COLS) - 1)}

\* The documents on disk: get_sorted_files(cluster_dir, cluster, ROOT) for
\* each cluster, call ids written as numbers (HORIZON-00n), already in the
\* order the function returns.  Clusters without txt files stop the run.
TxtFiles(cluster) ==
    IF cluster = "health" THEN <<2, 1, 3>>
    ELSE IF cluster = "civil" THEN <<4, 5>>
    ELSE <<>>

CallIds == UNION {{TxtFiles(CLUSTERS[i])[j] : j \in 1..Len(TxtFiles(CLUSTERS[i]))} :
                  i \in 1..Len(CLUSTERS)}

\* The buttons the reviewer presses: "none" and the NumPressed substantive
\* labels up to ETHICS (WUDAP, ETHICS; then NLP; then those after ETHICS).
PressOrder == <<3, 2, 1, 4, 5>>
PressedLabels ==
    {LABEL_COLS[PressOrder[i]] : i \in 1..NumPressed} \cup {LABEL_COLS[Len(LABEL_COLS)]}

\* {col: "" for col in LABEL_COLS}
EmptyRecord == [col \in Labels |-> ""]
\* prev_labels = {col: "" ...}; prev_labels["none"] = "yes"
NoneRecord == [EmptyRecord EXCEPT !["none"] = "yes"]

\* labels_dict.get(call_id, {col: "" for col in LABEL_COLS})
GetLabels(labels, call_id) ==
    IF call_id \in DOMAIN labels THEN labels[call_id] ELSE EmptyRecord

\* labels_dict[call_id] = record
SetLabels(labels, call_id, record) ==
    [d \in (DOMAIN labels) \cup {call_id} |->
        IF d = call_id THEN record ELSE labels[d]]

\* The fields of a record that read as active: record.get(col) == "yes"
Active(record) == {col \in Labels : record[col] = "yes"}

\* --------------------------------------------------------- persistence (CSV)
\* sorted(labels_dict.items()): the call ids in ascending order
RECURSIVE SortedIds(_)
SortedIds(ids) ==
    IF ids = {} THEN <<>>
    ELSE LET least == CHOOSE d \in ids : \A e \in ids : d <= e
         IN <<least>> \o SortedIds(ids \ {least})

\* One CSV cell as df.to_csv writes it: "yes" stays, "" and NaN become empty.
ToCell(value) == IF value = "yes" THEN "yes" ELSE ""

\* One parsed CSV cell as pd.read_csv returns it: an empty cell is NaN.
FromCell(text) == IF text = "" THEN "nan" ELSE text

\* Mutant: the rows are built from LABEL_COLS[:-1], the "none" cell stays empty.
ToCsv_NoNoneColumn(labels) ==
    LET ids == SortedIds(DOMAIN labels)
    IN [i \in 1..Len(ids) |->
           [CallID |-> ids[i],
            cols |-> [col \in Labels |->
                        IF col = "none" THEN "" ELSE ToCell(labels[ids[i]][col])]]]

\* Mutant: a record without any label is left out of the rows.
ToCsv_SkipsEmptyRows(labels) ==
    LET ids == SortedIds({d \in DOMAIN labels : Active(labels[d]) # {}})
    IN [i \in 1..Len(ids) |->
           [CallID |-> ids[i],
            cols |-> [col \in Labels |-> ToCell(labels[ids[i]][col])]]]

\* rows / df.to_csv(index=False): one row per call id, CallID then the six
\* LABEL_COLS, in call id order.
ToCsv(labels) ==
    LET ids == SortedIds(DOMAIN labels)
    IN [i \in 1..Len(ids) |->
           [CallID |-> ids[i],
            cols |-> [col \in Labels |-> ToCell(labels[ids[i]][col])]]]

\* pd.read_csv + the iterrows loop: result[call_id] = {col: row.get(col, "")}
FromCsv(rows) ==
    [d \in {rows[i].CallID : i \in 1..Len(rows)} |->
        LET i == CHOOSE k \in 1..Len(rows) :
                    /\ rows[k].CallID = d
                    /\ \A m \in 1..Len(rows) : rows[m].CallID = d => m <= k
        IN [col \in Labels |-> FromCell(rows[i].cols[col])]]

\* The reviewer's file final_labels_{username}.csv on the branch.
NoFile == [exists |-> FALSE, rows |-> <<>>]
NoSha == [present |-> FALSE, blob |-> <<>>]
\* The file's revision marker (git blob sha): determined by its content.
ShaOf(f) == [present |-> TRUE, blob |-> f.rows]

\* load_labels_from_github: status 200 needs the request to get through
\* (getOk) and the file to exist; anything else gives {}.
load_labels_from_github(f, getOk) ==
    IF getOk /\ f.exists THEN FromCsv(f.rows) ELSE <<>>

\* The GET of the file's metadata in save_labels_to_github: status 200 with
\* the sha when the request gets through (getOk) and the file exists, 404
\* when it gets through and there is no file, 0 for an exception.
FetchSha(f, getOk) ==
    IF getOk /\ f.exists THEN [status |-> 200, sha |-> ShaOf(f)]
    ELSE [status |-> IF getOk THEN 404 ELSE 0, sha |-> NoSha]

\* Mutant: data["sha"] is never set.
SentSha_Never(fetched) == NoSha

\* sha = ...json().get("sha") if status_code == 200 else None; if sha: data["sha"] = sha
SentSha(fetched) == IF fetched.status = 200 THEN fetched.sha ELSE NoSha

\* The contents API accepts a PUT that names the current blob sha of an
\* existing file, or names no sha for a file that does not exist.
StoreAccepts(f, marker) == IF f.exists THEN marker = ShaOf(f) ELSE ~marker.present

\* requests.put(url, json=data): the outcome and the file afterwards.  putOk
\* says whether the request gets through to a working server.
PutFile(csv, marker, f, putOk) ==
    LET accepted == putOk /\ StoreAccepts(f, marker)
    IN [ok |-> accepted,
        sha |-> marker,
        payload |-> csv,
        file |-> IF accepted THEN [exists |-> TRUE, rows |-> csv] ELSE f]

\* save_labels_to_github: build the CSV, GET the sha, then PUT the whole CSV.
save_labels_to_github(labels, f, getOk, putOk) ==
    PutFile(ToCsv(labels), SentSha(FetchSha(f, getOk)), f, putOk)

\* ------------------------------------------------------------ label toggle
\* Mutant: selecting a substantive label forgets to remove "none".
ToggleRecord_KeepNone(current_labels, label) ==
    IF current_labels[label] = "yes"
    THEN [current_labels EXCEPT ![label] = ""]
    ELSE IF label = "none"
         THEN NoneRecord
         ELSE [current_labels EXCEPT ![label] = "yes"]

\* Mutant: selecting "none" sets it without clearing the other labels.
ToggleRecord_NoneKeepsOthers(current_labels, label) ==
    IF current_labels[label] = "yes"
    THEN [current_labels EXCEPT ![label] = ""]
    ELSE IF label = "none"
         THEN [current_labels EXCEPT !["none"] = "yes"]
         ELSE [current_labels EXCEPT
                 !["none"] = IF @ = "yes" THEN "" ELSE @,
                 ![label] = "yes"]

\* Mutant: selecting a substantive label clears the other substantive labels.
ToggleRecord_SingleSelect(current_labels, label) ==
    IF current_labels[label] = "yes"
    THEN [current_labels EXCEPT ![label] = ""]
    ELSE IF label = "none"
         THEN NoneRecord
         ELSE [EmptyRecord EXCEPT ![label] = "yes"]

\* Mutant: deselecting the last active label falls back to "none".
ToggleRecord_DeselectDefaultsNone(current_labels, label) ==
    IF current_labels[label] = "yes"
    THEN IF Active(current_labels) = {label} /\ label # "none"
         THEN NoneRecord
         ELSE [current_labels EXCEPT ![label] = ""]
    ELSE IF label = "none"
         THEN NoneRecord
         ELSE [current_labels EXCEPT
                 !["none"] = IF @ = "yes" THEN "" ELSE @,
                 ![label] = "yes"]

\* The body of the button branch: deselect, select "none", select another.
ToggleRecord(current_labels, label) ==
    IF current_labels[label] = "yes"
    THEN [current_labels EXCEPT ![label] = ""]
    ELSE IF label = "none"
         THEN NoneRecord
         ELSE [current_labels EXCEPT
                 !["none"] = IF @ = "yes" THEN "" ELSE @,
                 ![label] = "yes"]

\* any(prev_labels.get(col) == "yes" for col in LABEL_COLS[:-1])
has_labels(prev_labels) == \E col \in Substantive : prev_labels[col] = "yes"

\* Mutant: the auto-default block does not look at has_labels.
AutoDefaultFires_IgnoresLabels(labels, viewed, last, call_id) ==
    /\ last # 0
    /\ last # call_id
    /\ last \in viewed

\* Mutant: the viewed test looks at the new call instead of the previous one.
AutoDefaultFires_TestsNewCall(labels, viewed, last, call_id) ==
    /\ last # 0
    /\ last # call_id
    /\ call_id \in viewed
    /\ ~has_labels(GetLabels(labels, last))

\* The guard of the auto-default block.  last = 0 stands for None.
AutoDefaultFires(labels, viewed, last, call_id) ==
    /\ last # 0
    /\ last # call_id
    /\ last \in viewed
    /\ ~has_labels(GetLabels(labels, last))

\* Mutant: the render does not add the call to viewed_calls.
Render_NoMarkViewed(labels, viewed, last, f, call_id, getOk, putOk) ==
    LET fires == AutoDefaultFires(labels, viewed, last, call_id)
        newLabels == IF fires THEN SetLabels(labels, last, NoneRecord) ELSE labels
        saved == save_labels_to_github(newLabels, f, getOk, putOk)
    IN [labels_dict |-> newLabels,
        viewed_calls |-> viewed,
        last_call_id |-> call_id,
        file |-> IF fires THEN saved.file ELSE f,
        log |-> IF fires
                THEN <<[ok |-> saved.ok, sha |-> saved.sha, payload |-> saved.payload]>>
                ELSE <<>>]

\* The first half of a render of document call_id: auto-default the previous
\* call to "none" and save, then mark call_id viewed and remember it.
Render(labels, viewed, last, f, call_id, getOk, putOk) ==
    LET fires == AutoDefaultFires(labels, viewed, last, call_id)
        newLabels == IF fires THEN SetLabels(labels, last, NoneRecord) ELSE labels
        saved == save_labels_to_github(newLabels, f, getOk, putOk)
    IN [labels_dict |-> newLabels,
        viewed_calls |-> viewed \cup {call_id},
        last_call_id |-> call_id,
        file |-> IF fires THEN saved.file ELSE f,
        log |-> IF fires
                THEN <<[ok |-> saved.ok, sha |-> saved.sha, payload |-> saved.payload]>>
                ELSE <<>>]

\* Mutant: the auto-save sends the changed record alone.
ToggleAndSave_OnlyChanged(labels, f, call_id, label, getOk, putOk) ==
    LET current_labels == GetLabels(labels, call_id)
        newLabels == SetLabels(labels, call_id, ToggleRecord(current_labels, label))
        saved == save_labels_to_github(SetLabels(<<>>, call_id, newLabels[call_id]),
                                       f, getOk, putOk)
    IN [labels_dict |-> newLabels,
        file |-> saved.file,
        log |-> <<[ok |-> saved.ok, sha |-> saved.sha, payload |-> saved.payload]>>]

\* Mutant: a failed save puts the mapping back as it was before the toggle.
ToggleAndSave_RollsBack(labels, f, call_id, label, getOk, putOk) ==
    LET current_labels == GetLabels(labels, call_id)
        newLabels == SetLabels(labels, call_id, ToggleRecord(current_labels, label))
        saved == save_labels_to_github(newLabels, f, getOk, putOk)
    IN [labels_dict |-> IF saved.ok THEN newLabels ELSE labels,
        file |-> saved.file,
        log |-> <<[ok |-> saved.ok, sha |-> saved.sha, payload |-> saved.payload]>>]

\* The button branch of a render of call_id: toggle, write back, auto-save.
ToggleAndSave(labels, f, call_id, label, getOk, putOk) ==
    LET current_labels == GetLabels(labels, call_id)
        newLabels == SetLabels(labels, call_id, ToggleRecord(current_labels, label))
        saved == save_labels_to_github(newLabels, f, getOk, putOk)
    IN [labels_dict |-> newLabels,
        file |-> saved.file,
        log |-> <<[ok |-> saved.ok, sha |-> saved.sha, payload |-> saved.payload]>>]

\* ------------------------------------------------------------------- state
VARIABLES
    file,              \* final_labels_{username}.csv in the repository
    session,           \* number of browser sessions started so far
    labels_dict,       \* st.session_state.labels_dict
    viewed_calls,      \* st.session_state.viewed_calls
    last_call_id,      \* st.session_state.last_call_id (0: None)
    cluster_index,     \* st.session_state.cluster_index
    last_cluster,      \* st.session_state.last_cluster ("": not set)
    selected_cluster,  \* the value of the "Select Cluster" selectbox
    saveLog,           \* the save attempts of the last interaction
    op,                \* the last interaction and what it found
    steps              \* interactions so far

\* Two sessions of one reviewer with the save taken request by request.
VARIABLES
    tabs,              \* per session: labels_dict and where its save stands
    lastWrite          \* the last PUT: its session, marker and outcome

\* One cluster directory and its divide file, and what is derived from them.
VARIABLES
    txt_listing,       \* glob.glob(cluster_dir/*.txt), in listing order
    divide,            \* divide_{cluster}.txt: whether it exists, its lines
    resolved,          \* the result of get_sorted_files
    destination_map,   \* the result of get_destination_mapping
    derived            \* which of the two has been computed

sessionVars == <<session, labels_dict, viewed_calls, last_call_id, cluster_index,
                 last_cluster, selected_cluster, saveLog, op>>
tabVars == <<tabs, lastWrite>>
dirVars == <<txt_listing, divide, resolved, destination_map, derived>>

vars == <<file, steps, sessionVars, tabVars, dirVars>>

\* op.name: the interaction; op.label: the button pressed; op.call_id: the
\* document rendered; op.left: the document left for another one (0: none);
\* op.before: the record, before the interaction, of the document toggled
\* or left; op.flag: the load returned the file (start), the index moved
\* (prev, next); op.prev: how the save of the interaction before ended.
NoOp == [name |-> "init", label |-> "", call_id |-> 0, left |-> 0,
         before |-> EmptyRecord, flag |-> FALSE, prev |-> "none"]
PrevSave == IF saveLog = <<>> THEN "none"
            ELSE IF saveLog[Len(saveLog)].ok THEN "ok" ELSE "failed"

\* No session has run yet.
SessionInit ==
    /\ session = 0
    /\ labels_dict = <<>>
    /\ viewed_calls = {}
    /\ last_call_id = 0
    /\ cluster_index = 0
    /\ last_cluster = ""
    /\ selected_cluster = CLUSTERS[1]
    /\ saveLog = <<>>
    /\ op = NoOp

\* The two sessions hold no labels and are not saving; nothing was written.
Tabs == {1, 2}
NoFetch == [status |-> 0, sha |-> NoSha]
NoWrite == [tab |-> 0, marker |-> NoSha, current |-> NoSha, accepted |-> FALSE]
TabsInit ==
    /\ tabs = [t \in Tabs |->
                 [labels |-> <<>>, pc |-> "new", saves |-> 0, payload |-> <<>>,
                  fetched |-> NoFetch]]
    /\ lastWrite = NoWrite

\* No cluster directory has been read.
NoDivide == [exists |-> FALSE, lines |-> <<>>]
DirInit ==
    /\ txt_listing = <<>>
    /\ divide = NoDivide
    /\ resolved = <<>>
    /\ destination_map = <<>>
    /\ derived = "nothing"

Init ==
    /\ file = NoFile
    /\ steps = 0
    /\ SessionInit
    /\ TabsInit
    /\ DirInit

\* The outcomes of the two requests of a save (does the GET get through, does
\* the PUT); a run that makes no save has nothing to choose.
Net(saves) == IF saves THEN BOOLEAN \X BOOLEAN ELSE {<<TRUE, TRUE>>}
\* A render of call_id from the current state takes the auto-default branch.
Fires(call_id) == AutoDefaultFires(labels_dict, viewed_calls, last_call_id, call_id)

\* txt_files of the selected cluster and the document at cluster_index
txt_files == TxtFiles(selected_cluster)
num_files == Len(txt_files)
\* The page shows a document (the run was not stopped before the slider).
Showing == session > 0 /\ num_files > 0
current_call_id == txt_files[cluster_index + 1]

\* What an interaction records about the document it left: the previously
\* displayed call when another one is displayed now, with its record before.
Leaving(call_id) == IF last_call_id # 0 /\ last_call_id # call_id THEN last_call_id ELSE 0

\* The state after a render of call_id at index idx (no button pressed).
Show(name, idx, call_id, getOk, putOk, flag) ==
    LET r == Render(labels_dict, viewed_calls, last_call_id, file, call_id, getOk, putOk)
    IN /\ cluster_index' = idx
       /\ labels_dict' = r.labels_dict
       /\ viewed_calls' = r.viewed_calls
       /\ last_call_id' = r.last_call_id
       /\ file' = r.file
       /\ saveLog' = r.log
       /\ op' = [name |-> name, label |-> "", call_id |-> call_id,
                 left |-> Leaving(call_id),
                 before |-> GetLabels(labels_dict, last_call_id), flag |-> flag,
                 prev |-> PrevSave]

\* A new browser session: session state is empty, the first run loads the
\* labels, selects CLUSTERS[0] and renders its first document.
StartSession ==
    /\ session < MaxSessions
    /\ steps < MaxSteps
    /\ \E getOk \in BOOLEAN :
        LET cluster == CLUSTERS[1]
            call_id == TxtFiles(cluster)[1]
        IN /\ session' = session + 1
           /\ steps' = steps + 1
           /\ selected_cluster' = cluster
           /\ last_cluster' = cluster
           /\ cluster_index' = 0
           /\ labels_dict' = load_labels_from_github(file, getOk)
           /\ viewed_calls' = {call_id}
           /\ last_call_id' = call_id
           /\ saveLog' = <<>>
           /\ op' = [name |-> "start", label |-> "", call_id |-> call_id, left |-> 0,
                     before |-> EmptyRecord, flag |-> getOk /\ file.exists,
                     prev |-> PrevSave]
           /\ UNCHANGED file
    /\ UNCHANGED <<tabVars, dirVars>>

\* The reviewer picks another cluster in the selectbox.
SelectCluster ==
    /\ session > 0
    /\ steps < MaxSteps
    /\ \E i \in 1..NumClusters :
        LET cluster == CLUSTERS[i]
            files == TxtFiles(cluster)
            idx == IF last_cluster # cluster THEN 0 ELSE cluster_index
        IN /\ i <= Len(CLUSTERS)
           /\ cluster # selected_cluster
           /\ steps' = steps + 1
           /\ selected_cluster' = cluster
           /\ UNCHANGED session
           /\ IF files = <<>>
              THEN \* st.stop(): nothing below the warning runs
                   /\ saveLog' = <<>>
                   /\ op' = [NoOp EXCEPT !.name = "cluster", !.prev = PrevSave]
                   /\ UNCHANGED <<file, labels_dict, viewed_calls, last_call_id,
                                  cluster_index, last_cluster>>
              ELSE /\ last_cluster' = cluster
                   /\ \E net \in Net(Fires(files[idx + 1])) :
                        Show("cluster", idx, files[idx + 1], net[1], net[2], FALSE)
    /\ UNCHANGED <<tabVars, dirVars>>

\* The reviewer moves the "File" slider to another index.
SelectIndex ==
    /\ Showing
    /\ steps < MaxSteps
    /\ \E idx \in 0..(num_files - 1) :
        /\ idx # cluster_index
        /\ steps' = steps + 1
        /\ \E net \in Net(Fires(txt_files[idx + 1])) :
             Show("index", idx, txt_files[idx + 1], net[1], net[2], FALSE)
        /\ UNCHANGED <<session, last_cluster, selected_cluster>>
    /\ UNCHANGED <<tabVars, dirVars>>

\* Mutant: the guard of the Prev branch reads cluster_index > 1.
PrevIndex_GuardOffByOne(idx) == IF idx > 1 THEN idx - 1 ELSE idx

\* button("Prev") and cluster_index > 0: cluster_index -= 1
PrevIndex(idx) == IF idx > 0 THEN idx - 1 ELSE idx

\* button("Next") and cluster_index < num_files - 1: cluster_index += 1
NextIndex(idx, count) == IF idx < count - 1 THEN idx + 1 ELSE idx

\* The reviewer presses "Prev".
Prev ==
    /\ Showing
    /\ steps < MaxSteps
    /\ LET idx == PrevIndex(cluster_index)
       IN /\ steps' = steps + 1
          /\ \E net \in Net(Fires(txt_files[idx + 1])) :
               Show("prev", idx, txt_files[idx + 1], net[1], net[2], cluster_index > 0)
          /\ UNCHANGED <<session, last_cluster, selected_cluster>>
    /\ UNCHANGED <<tabVars, dirVars>>

\* The reviewer presses "Next".
Advance ==
    /\ Showing
    /\ steps < MaxSteps
    /\ LET idx == NextIndex(cluster_index, num_files)
       IN /\ steps' = steps + 1
          /\ \E net \in Net(Fires(txt_files[idx + 1])) :
               Show("next", idx, txt_files[idx + 1], net[1], net[2],
                    cluster_index < num_files - 1)
          /\ UNCHANGED <<session, last_cluster, selected_cluster>>
    /\ UNCHANGED <<tabVars, dirVars>>

\* The reviewer presses one of the six label buttons of the document shown:
\* the run renders the document, takes the button branch, saves and reruns.
Toggle ==
    /\ Showing
    /\ steps < MaxSteps
    /\ \E label \in PressedLabels, net \in Net(TRUE) :
        LET call_id == current_call_id
            r == Render(labels_dict, viewed_calls, last_call_id, file, call_id,
                        net[1], net[2])
            t == ToggleAndSave(r.labels_dict, r.file, call_id, label, net[1], net[2])
            again == Render(t.labels_dict, r.viewed_calls, r.last_call_id, t.file,
                            call_id, net[1], net[2])
        IN /\ steps' = steps + 1
           /\ labels_dict' = again.labels_dict
           /\ viewed_calls' = again.viewed_calls
           /\ last_call_id' = again.last_call_id
           /\ file' = again.file
           /\ saveLog' = r.log \o t.log \o again.log
           /\ op' = [name |-> "toggle", label |-> label, call_id |-> call_id,
                     left |-> Leaving(call_id),
                     before |-> GetLabels(labels_dict, call_id), flag |-> FALSE,
                     prev |-> PrevSave]
           /\ UNCHANGED <<session, cluster_index, last_cluster, selected_cluster>>
    /\ UNCHANGED <<tabVars, dirVars>>

Next ==
    \/ StartSession
    \/ SelectCluster
    \/ SelectIndex
    \/ Prev
    \/ Advance
    \/ Toggle

Spec == Init /\ [][Next]_vars

\* ------------------------------------------- two sessions, save by request
\* The document each of the two sessions has on its page.
TabCall(t) == TxtFiles(CLUSTERS[1])[t]
\* The buttons pressed in the two sessions: one substantive label and "none".
TabLabels == {LABEL_COLS[3], "none"}

\* Session t starts: its first run finds no labels_dict in st.session_state
\* and loads the reviewer's file.
TabLoad ==
    /\ \E t \in Tabs, getOk \in BOOLEAN :
        /\ tabs[t].pc = "new"
        /\ tabs' = [tabs EXCEPT ![t].labels = load_labels_from_github(file, getOk),
                                ![t].pc = "idle"]
    /\ UNCHANGED <<file, steps, lastWrite, sessionVars, dirVars>>

\* A label button is pressed in session t: the record is toggled and written
\* back, and save_labels_to_github builds its CSV content.
TabToggle ==
    /\ \E t \in Tabs, label \in TabLabels :
        LET call_id == TabCall(t)
            newLabels == SetLabels(tabs[t].labels, call_id,
                                   ToggleRecord(GetLabels(tabs[t].labels, call_id), label))
        IN /\ tabs[t].pc = "idle"
           /\ tabs[t].saves < MaxSaves
           /\ tabs' = [tabs EXCEPT ![t].labels = newLabels,
                                   ![t].saves = @ + 1,
                                   ![t].payload = ToCsv(newLabels),
                                   ![t].pc = "get"]
    /\ UNCHANGED <<file, steps, lastWrite, sessionVars, dirVars>>

\* The save of session t fetches the file's current sha.
TabGet ==
    /\ \E t \in Tabs, getOk \in BOOLEAN :
        /\ tabs[t].pc = "get"
        /\ tabs' = [tabs EXCEPT ![t].fetched = FetchSha(file, getOk),
                                ![t].pc = "put"]
    /\ UNCHANGED <<file, steps, lastWrite, sessionVars, dirVars>>

\* The save of session t sends its PUT and returns.
TabPut ==
    /\ \E t \in Tabs, putOk \in BOOLEAN :
        LET marker == SentSha(tabs[t].fetched)
            put == PutFile(tabs[t].payload, marker, file, putOk)
        IN /\ tabs[t].pc = "put"
           /\ file' = put.file
           /\ lastWrite' = [tab |-> t, marker |-> marker,
                            current |-> FetchSha(file, TRUE).sha, accepted |-> put.ok]
           /\ tabs' = [tabs EXCEPT ![t].pc = "idle"]
    /\ UNCHANGED <<steps, sessionVars, dirVars>>

TabNext ==
    \/ TabLoad
    \/ TabToggle
    \/ TabGet
    \/ TabPut

TabSpec == Init /\ [][TabNext]_vars

\* ------------------------------------------- cluster directory: the order
\* The call ids of the documents of a cluster directory, in ascending order
\* of their file names (call_id + ".txt").  The session model above
\* abbreviates them by numbers.
Documents == <<"HORIZON-001", "HORIZON-002", "HORIZON-003">>
\* The place of fname in the order of Python's string comparison.
FileRank(call_id) == CHOOSE i \in 1..Len(Documents) : Documents[i] = call_id

\* return 10**9
Sentinel == 1000000000

\* A manifest line is the sequence of its words, a ":" standing for a colon
\* that follows the word before it; DotRun is a run of dots (\.+) and
\* PageWords are the digit strings (\d+) that follow one.
DotRun == "..."
PageWords == {"2", "12", "1000000000"}
\* int(match.group(1))
IntOf(word) ==
    CASE word = "2" -> 2
      [] word = "12" -> 12
      [] word = "1000000000" -> 1000000000

\* The matches of rf"{re.escape(call_id)}:.*?\.+\s*(\d+)" on a line: <<i, j>>
\* with call_id and its colon at i and a dot run followed by digits at j.
PageMatches(line, call_id) ==
    {m \in (1..Len(line)) \X (1..Len(line)) :
        /\ line[m[1]] = call_id
        /\ m[1] + 1 <= Len(line)
        /\ line[m[1] + 1] = ":"
        /\ m[2] > m[1] + 1
        /\ line[m[2]] = DotRun
        /\ m[2] + 1 <= Len(line)
        /\ line[m[2] + 1] \in PageWords}

\* re.search takes the leftmost match, .*? the nearest dot run.
FirstMatch(line, call_id) ==
    CHOOSE m \in PageMatches(line, call_id) :
        \A q \in PageMatches(line, call_id) :
            m[1] < q[1] \/ (m[1] = q[1] /\ m[2] <= q[2])

\* extract_page_number: the page of the first line that matches, 10**9 when
\* none does or the manifest cannot be read.
extract_page_number(d, call_id) ==
    LET hits == {n \in 1..Len(d.lines) : PageMatches(d.lines[n], call_id) # {}}
        first == CHOOSE n \in hits : \A k \in hits : n <= k
        line == d.lines[first]
    IN IF ~d.exists \/ hits = {} THEN Sentinel
       ELSE IntOf(line[FirstMatch(line, call_id)[2] + 1])

\* Mutant: the sort key is the page number alone.
get_page_sort_key_PageOnly(d, call_id) == <<extract_page_number(d, call_id), 0>>

\* get_page_sort_key: (page_num, fname)
get_page_sort_key(d, call_id) == <<extract_page_number(d, call_id), FileRank(call_id)>>

\* Python's comparison of two 2-tuples.
KeyLess(a, b) == a[1] < b[1] \/ (a[1] = b[1] /\ a[2] < b[2])

\* sorted(seq, key=...): ascending keys, elements of equal key in the order
\* of seq (the sort is stable).  keys[i] is the key of seq[i].
SortedBy(seq, keys) ==
    LET n == Len(seq)
        Before(i, j) == KeyLess(keys[i], keys[j]) \/ (~KeyLess(keys[j], keys[i]) /\ i < j)
        Place(i) == 1 + Cardinality({j \in 1..n : j # i /\ Before(j, i)})
    IN [p \in 1..n |-> seq[CHOOSE i \in 1..n : Place(i) = p]]

\* get_sorted_files: sorted(txt_files) without a manifest (the paths share
\* their directory, so the file names decide), else sorted by the page key.
get_sorted_files(listing, d) ==
    IF ~d.exists
    THEN SortedBy(listing, [i \in 1..Len(listing) |-> <<0, FileRank(listing[i])>>])
    ELSE SortedBy(listing, [i \in 1..Len(listing) |-> get_page_sort_key(d, listing[i])])

\* glob.glob returns the txt files of the directory in an arbitrary order.
Range(seq) == {seq[i] : i \in 1..Len(seq)}
Listings ==
    {l \in UNION {[1..n -> Range(Documents)] : n \in 0..Len(Documents)} :
        Cardinality(Range(l)) = Len(l)}

\* The manifest lines explored for the order: a key line with a page for the
\* first two documents, a key line without a page, a destination header.
KeyLine(call_id, page) == <<call_id, ":", "intro", DotRun, page>>
HealthHeader == <<"Destination", "Health", "Services", DotRun, "12">>
SortLines ==
    {KeyLine(Documents[i], page) : i \in 1..2, page \in PageWords}
        \cup {<<Documents[1], ":", "intro">>, HealthHeader}
Manifests(lines, max) ==
    {NoDivide} \cup
        {[exists |-> TRUE, lines |-> l] : l \in UNION {[1..n -> lines] : n \in 0..max}}

\* A cluster directory with some listing and some manifest, nothing resolved.
SortInit ==
    /\ file = NoFile
    /\ steps = 0
    /\ SessionInit
    /\ TabsInit
    /\ txt_listing \in Listings
    /\ divide \in Manifests(SortLines, MaxEntries)
    /\ resolved = <<>>
    /\ destination_map = <<>>
    /\ derived = "nothing"

\* txt_files = get_sorted_files(cluster_dir, selected_cluster, ROOT)
ResolveFiles ==
    /\ resolved' = get_sorted_files(txt_listing, divide)
    /\ derived' = "sorted"
    /\ UNCHANGED <<file, steps, sessionVars, tabVars, txt_listing, divide, destination_map>>

\* The next run lists the same files in another order.
ListAgain ==
    /\ derived = "sorted"
    /\ \E l \in Listings :
        /\ Range(l) = Range(txt_listing)
        /\ l # txt_listing
        /\ txt_listing' = l
    /\ UNCHANGED <<file, steps, sessionVars, tabVars, divide, resolved, destination_map,
                   derived>>

SortNext ==
    \/ ResolveFiles
    \/ ListAgain

SortSpec == SortInit /\ [][SortNext]_vars


\* ------------------------------------ cluster directory: the destinations
\* stripped.startswith("Destination")
IsDestinationLine(line) == Len(line) > 0 /\ line[1] = "Destination"
\* stripped.startswith("HORIZON-")
IsKeyLine(line) == Len(line) > 0 /\ line[1] \in Range(Documents)

\* re.sub(r'\.+\s*\d+\s*$', '', stripped): a dot run and digits at the end of
\* the line are cut off (the blank before the dot run stays).
StripPage(line) ==
    IF Len(line) >= 2 /\ line[Len(line) - 1] = DotRun /\ line[Len(line)] \in PageWords
    THEN SubSeq(line, 1, Len(line) - 2)
    ELSE line

\* .replace("Destination ", "").strip(): every word "Destination" that a
\* blank follows is removed; the words left are the destination text.
DestinationText(line) ==
    LET rest == StripPage(line)
        blankAfter(i) == IF i < Len(rest) THEN rest[i + 1] # ":" ELSE Len(rest) < Len(line)
        kept == {i \in 1..Len(rest) : ~(rest[i] = "Destination" /\ blankAfter(i))}
    IN [p \in 1..Cardinality(kept) |->
           rest[CHOOSE i \in kept : Cardinality({j \in kept : j < i}) = p - 1]]

\* re.match(r'^(HORIZON-[^:]+):', stripped): the line has a colon.
HasKey(line) == \E i \in 2..Len(line) : line[i] = ":"
\* match.group(1): the words before the first colon.
KeyOf(line) == SubSeq(line, 1, (CHOOSE i \in 2..Len(line) :
                                   line[i] = ":" /\ \A j \in 2..(i - 1) : line[j] # ":") - 1)

\* current_destination = None
NoDestination == [none |-> TRUE, text |-> <<>>]
\* if current_destination: neither None nor the empty string
Truthy(current_destination) == ~current_destination.none /\ current_destination.text # <<>>

\* The for loop of get_destination_mapping over the lines left.
RECURSIVE ScanLines(_, _, _)
ScanLines(lines, current_destination, map) ==
    IF lines = <<>> THEN map
    ELSE LET line == Head(lines)
         IN IF IsDestinationLine(line)
            THEN ScanLines(Tail(lines), [none |-> FALSE, text |-> DestinationText(line)], map)
            ELSE IF IsKeyLine(line) /\ HasKey(line) /\ Truthy(current_destination)
            THEN ScanLines(Tail(lines), current_destination,
                           [k \in DOMAIN map \cup {KeyOf(line)} |->
                               IF k = KeyOf(line) THEN current_destination.text ELSE map[k]])
            ELSE ScanLines(Tail(lines), current_destination, map)

\* get_destination_mapping: {} when the manifest cannot be read.
get_destination_mapping(d) ==
    IF d.exists THEN ScanLines(d.lines, NoDestination, <<>>) ELSE <<>>

\* The manifest lines explored for the destinations: three headers (one with
\* a page and no text), two key lines, a key line without colon, another line.
DestLines ==
    {HealthHeader, <<"Destination", "Digital">>, <<"Destination", DotRun, "12">>,
     KeyLine(Documents[1], "12"), KeyLine(Documents[2], "2"),
     <<Documents[1], "intro">>, <<"Pillar", "II">>}

\* A cluster directory with some manifest, nothing resolved.
DestInit ==
    /\ file = NoFile
    /\ steps = 0
    /\ SessionInit
    /\ TabsInit
    /\ txt_listing = <<>>
    /\ divide \in Manifests(DestLines, MaxLines)
    /\ resolved = <<>>
    /\ destination_map = <<>>
    /\ derived = "nothing"

\* st.session_state.destination_map = get_destination_mapping(divide_file_path)
ParseDestinations ==
    /\ derived = "nothing"
    /\ destination_map' = get_destination_mapping(divide)
    /\ derived' = "mapped"
    /\ UNCHANGED <<file, steps, sessionVars, tabVars, txt_listing, divide, resolved>>

DestNext == ParseDestinations

DestSpec == DestInit /\ [][DestNext]_vars


\* ================================================================== claims
\* The call ids of the rows of a CSV payload, and the row of one call id.
RowIds(rows) == {rows[i].CallID : i \in 1..Len(rows)}
RowOf(rows, d) == rows[CHOOSE i \in 1..Len(rows) : rows[i].CallID = d]
\* A CSV payload is the whole mapping: one row per key of labels, no others,
\* each with the active labels of that key's record.
WholeMapping(rows, labels) ==
    /\ Len(rows) = Cardinality(DOMAIN labels)
    /\ RowIds(rows) = DOMAIN labels
    /\ \A d \in DOMAIN labels :
         {col \in Labels : RowOf(rows, d).cols[col] = "yes"} = Active(labels[d])
\* The last interaction was a press of a label button that was not active.
Selected(label) ==
    /\ op.name = "toggle"
    /\ op.label = label
    /\ op.before[label] # "yes"

\* C1 (as stated): every label record has at most one of its six fields
\* equal to "yes".
C1_AtMostOneYes ==
    \A d \in DOMAIN labels_dict : Cardinality(Active(labels_dict[d])) <= 1

\* C1 (amended): a label record, in memory or in the persisted file, has more
\* than one field equal to "yes" only when all of them are substantive labels.
C1_AtMostOneUnlessSubstantive ==
    /\ \A d \in DOMAIN labels_dict :
         \/ Cardinality(Active(labels_dict[d])) <= 1
         \/ Active(labels_dict[d]) \subseteq Substantive
    /\ \A i \in 1..Len(file.rows) :
         LET yes == {col \in Labels : file.rows[i].cols[col] = "yes"}
         IN Cardinality(yes) <= 1 \/ yes \subseteq Substantive

\* C1 witness: a record with two substantive labels active at once.
C1_Witness ==
    \E d \in DOMAIN labels_dict :
        /\ Cardinality(Active(labels_dict[d])) >= 2
        /\ op.name = "toggle"

\* C2: a record whose "none" field is "yes" has none of the five substantive
\* fields equal to "yes".
C2_NoneExclusive ==
    \A d \in DOMAIN labels_dict :
        labels_dict[d]["none"] = "yes" =>
            \A col \in Substantive : labels_dict[d][col] # "yes"

\* C2 witness: "none" was selected on a record that had a substantive label.
C2_Witness ==
    /\ Selected("none")
    /\ \E col \in Substantive : op.before[col] = "yes"
    /\ labels_dict[op.call_id]["none"] = "yes"

\* C3: selecting "none" leaves the current document's record with "none"
\* set and the five substantive labels empty, whatever it was before.
C3_SelectNone ==
    Selected("none") =>
        /\ op.call_id \in DOMAIN labels_dict
        /\ labels_dict[op.call_id]["none"] = "yes"
        /\ \A col \in Substantive : labels_dict[op.call_id][col] = ""

\* C3 witness: "none" was selected on a record with several substantive labels.
C3_Witness ==
    /\ Selected("none")
    /\ Cardinality(Active(op.before) \cap Substantive) >= 2
    /\ Active(labels_dict[op.call_id]) = {"none"}

\* C4: selecting a substantive label on a record whose "none" is "yes"
\* leaves "none" empty and that label "yes".
C4_SelectSubstantiveClearsNone ==
    \A label \in Substantive :
        (Selected(label) /\ op.before["none"] = "yes") =>
            /\ op.call_id \in DOMAIN labels_dict
            /\ labels_dict[op.call_id]["none"] = ""
            /\ labels_dict[op.call_id][label] = "yes"

\* C4 witness: a substantive label was selected while "none" was active.
C4_Witness ==
    /\ op.name = "toggle"
    /\ op.label \in Substantive
    /\ op.before["none"] = "yes"
    /\ op.before[op.label] # "yes"
    /\ labels_dict[op.call_id][op.label] = "yes"

\* C5: when another document is displayed after document A (op.left), A's
\* record becomes exactly {none: yes} and one save of the whole mapping is
\* attempted if A had no substantive label; otherwise A's record is as before
\* and nothing is saved.
C5_AutoClassifyOnLeave ==
    op.left # 0 =>
        IF Active(op.before) \cap Substantive = {}
        THEN /\ op.left \in DOMAIN labels_dict
             /\ labels_dict[op.left] = NoneRecord
             /\ Len(saveLog) = 1
             /\ WholeMapping(saveLog[1].payload, labels_dict)
        ELSE /\ op.left \in DOMAIN labels_dict
             /\ labels_dict[op.left] = op.before
             /\ saveLog = <<>>

\* C5 witness: a displayed, never labeled document was left and classified.
C5_Witness ==
    /\ op.left # 0
    /\ Active(op.before) = {}
    /\ op.left \in DOMAIN labels_dict
    /\ labels_dict[op.left] = NoneRecord
    /\ Len(saveLog) = 1

\* C5, the other case reached: a labeled document was left and kept its record.
C5_LabeledLeft ==
    /\ op.left # 0
    /\ Active(op.before) \cap Substantive # {}

\* The active labels a CSV payload holds for call id d.
RowActive(rows, d) == {col \in Labels : RowOf(rows, d).cols[col] = "yes"}
\* The last interaction assigned a record: a button press, or an auto-default
\* of the document left; Mutated is the document whose record it assigned.
Mutating == \/ op.name = "toggle"
            \/ op.left # 0 /\ Active(op.before) \cap Substantive = {}
Mutated == IF op.name = "toggle" THEN op.call_id ELSE op.left

\* C6: within a session, an interaction makes at most one save attempt, and
\* one that changes the mapping or presses a label button makes exactly one,
\* whose payload is the whole mapping as it stands after the change.
C6_SaveAfterEveryMutation ==
    [][session' = session =>
        /\ Len(saveLog') <= 1
        /\ (labels_dict' # labels_dict \/ op'.name = "toggle") =>
              /\ Len(saveLog') = 1
              /\ WholeMapping(saveLog'[1].payload, labels_dict')]_vars

\* C6 witness: a toggle was saved with a payload of several documents.
C6_Witness ==
    /\ op.name = "toggle"
    /\ Len(saveLog) = 1
    /\ Len(saveLog[1].payload) >= 2
    /\ Cardinality(DOMAIN labels_dict) >= 2

\* C7: a session started right after a successful save, whose load gets the
\* file (status 200), has a record for exactly the keys of the mapping saved,
\* each with the same active labels.
C7_RoundTrip ==
    [][(op'.name = "start" /\ op'.flag /\ PrevSave = "ok") =>
        /\ DOMAIN labels_dict' = DOMAIN labels_dict
        /\ \A d \in DOMAIN labels_dict :
             Active(labels_dict'[d]) = Active(labels_dict[d])]_vars

\* C7 witness: a fresh session loaded, right after a successful save, a record
\* with none = yes and ETHICS empty.
C7_Witness ==
    /\ op.name = "start"
    /\ op.flag
    /\ op.prev = "ok"
    /\ \E d \in DOMAIN labels_dict :
         /\ Active(labels_dict[d]) = {"none"}
         /\ labels_dict[d]["ETHICS"] = "nan"

\* C8: a failed save leaves the file as it was, the session running and the
\* mapping as the mutation made it (equal to the payload that failed); a save
\* is made only by an interaction that assigns a record; and every save
\* carries all the keys of the mapping before it, with their records as they
\* were in memory except for the document the interaction assigns.
C8_FailedSaveKeepsState ==
    [][session' = session =>
        /\ (saveLog' # <<>> /\ ~saveLog'[1].ok) =>
              /\ file' = file
              /\ Showing'
              /\ WholeMapping(saveLog'[1].payload, labels_dict')
              /\ op'.name = "toggle" =>
                    Active(labels_dict'[op'.call_id]) # Active(op'.before)
        /\ saveLog' # <<>> =>
              /\ Mutating'
              /\ \A d \in DOMAIN labels_dict :
                    /\ d \in RowIds(saveLog'[1].payload)
                    /\ d # Mutated' =>
                         RowActive(saveLog'[1].payload, d) = Active(labels_dict[d])]_vars

\* C8 witness: the save after a failed one succeeded and carried two records.
C8_Witness ==
    /\ op.prev = "failed"
    /\ saveLog # <<>>
    /\ saveLog[1].ok
    /\ Len(saveLog[1].payload) >= 2
    /\ file.rows = saveLog[1].payload

\* C9 (as stated): a key that has a record in the persisted file has one in
\* every later state of the file.
C9_NeverDeleted ==
    [][RowIds(file.rows) \subseteq RowIds(file'.rows)]_vars

\* C10 (as stated): every document that has been displayed has a record in
\* the label mapping.
C10_RecordOnDisplay ==
    \A d \in viewed_calls : d \in DOMAIN labels_dict

\* C10 (amended): displaying a document creates no record (after the first
\* render of a session the document shown has one only if the load brought
\* it); every displayed document other than the one shown now has a record,
\* in the mapping and in the payload of every save, and a toggled one has too.
C10_RecordOnToggleOrLeave ==
    /\ (viewed_calls \ {last_call_id}) \subseteq DOMAIN labels_dict
    /\ saveLog # <<>> =>
          (viewed_calls \ {last_call_id}) \subseteq RowIds(saveLog[1].payload)
    /\ op.name = "toggle" =>
          /\ op.call_id \in DOMAIN labels_dict
          /\ viewed_calls \subseteq RowIds(saveLog[1].payload)
    /\ op.name = "start" =>
          (last_call_id \in DOMAIN labels_dict <=>
              (op.flag /\ last_call_id \in RowIds(file.rows)))

\* C10 witness: an unlabeled document was left and got its record, while the
\* document now shown has none.
C10_Witness ==
    /\ op.left # 0
    /\ saveLog # <<>>
    /\ op.left \in DOMAIN labels_dict
    /\ last_call_id \in viewed_calls
    /\ last_call_id \notin DOMAIN labels_dict

\* C11: selecting a substantive label leaves the other four substantive
\* labels of the record as they were; only that label and "none" may change.
C11_SelectKeepsOtherSubstantive ==
    \A label \in Substantive :
        Selected(label) =>
            /\ op.call_id \in DOMAIN labels_dict
            /\ \A col \in Substantive \ {label} :
                 labels_dict[op.call_id][col] = op.before[col]

\* C11 witness: a substantive label was selected next to another active one.
C11_Witness ==
    /\ op.name = "toggle"
    /\ op.label \in Substantive
    /\ op.before[op.label] # "yes"
    /\ \E col \in Substantive \ {op.label} :
         /\ op.before[col] = "yes"
         /\ labels_dict[op.call_id][col] = "yes"
    /\ labels_dict[op.call_id][op.label] = "yes"

\* C12: whenever a document is shown, cluster_index is an index of the
\* selected cluster's list and the document shown is the one at that index;
\* Prev at 0 and Next at count - 1 leave the index as it is, and elsewhere
\* they move it by exactly one, with the session going on.
C12_IndexInRange ==
    [][/\ Showing' =>
            /\ cluster_index' \in 0..(num_files' - 1)
            /\ last_call_id' = txt_files'[cluster_index' + 1]
       /\ op'.name = "prev" =>
            /\ Showing'
            /\ cluster_index' = IF cluster_index = 0 THEN 0 ELSE cluster_index - 1
       /\ op'.name = "next" =>
            /\ Showing'
            /\ cluster_index' = IF cluster_index = num_files - 1
                                THEN cluster_index ELSE cluster_index + 1]_vars

\* C12 witness: Next was pressed on the last document and nothing moved.
C12_Witness ==
    /\ op.name = "next"
    /\ ~op.flag
    /\ cluster_index = num_files - 1
    /\ last_call_id = current_call_id

\* C13 (as stated): a cluster switch shows the new cluster at index 0, removes
\* nothing from viewed_calls and removes or clears no label record.
C13_SwitchResetsIndex ==
    [][(op'.name = "cluster" /\ selected_cluster' # selected_cluster) =>
          /\ Showing' => cluster_index' = 0
          /\ viewed_calls \subseteq viewed_calls'
          /\ \A d \in DOMAIN labels_dict :
               /\ d \in DOMAIN labels_dict'
               /\ Active(labels_dict[d]) \subseteq Active(labels_dict'[d])]_vars

\* C19: last_call_id, once set, is a member of viewed_calls; within a session
\* viewed_calls only grows; and whenever another document is shown after a
\* document without substantive label, by whatever navigation, that document's
\* record is {none: yes} afterwards.
C19_LastIsViewed ==
    [][/\ last_call_id' # 0 => last_call_id' \in viewed_calls'
       /\ session' = session => viewed_calls \subseteq viewed_calls'
       /\ (/\ session' = session
           /\ Showing'
           /\ last_call_id # 0
           /\ last_call_id' # last_call_id
           /\ Active(GetLabels(labels_dict, last_call_id)) \cap Substantive = {}) =>
              /\ last_call_id \in DOMAIN labels_dict'
              /\ labels_dict'[last_call_id] = NoneRecord]_vars

\* C19 witness: a jump of the slider over a document left the unlabeled
\* first document of the cluster classified.
C19_Witness ==
    /\ op.name = "index"
    /\ cluster_index = 2
    /\ op.left = txt_files[1]
    /\ Active(op.before) = {}
    /\ op.left \in viewed_calls
    /\ labels_dict[op.left] = NoneRecord

\* C20: a press of an active label empties that field and leaves the other
\* five fields as they were; any press leaves the records of all other
\* documents as they were and adds no key but the current document's.
C20_DeselectFrame ==
    [][op'.name = "toggle" =>
          /\ DOMAIN labels_dict' = DOMAIN labels_dict \cup {op'.call_id}
          /\ \A d \in DOMAIN labels_dict \ {op'.call_id} :
               labels_dict'[d] = labels_dict[d]
          /\ (/\ op'.call_id \in DOMAIN labels_dict
              /\ labels_dict[op'.call_id][op'.label] = "yes") =>
                 labels_dict'[op'.call_id] =
                     [labels_dict[op'.call_id] EXCEPT ![op'.label] = ""]]_vars

\* C20 witness: the only active label of a record was deselected, the record
\* is all empty and another document has a record.
C20_Witness ==
    /\ op.name = "toggle"
    /\ op.before[op.label] = "yes"
    /\ Active(labels_dict[op.call_id]) = {}
    /\ Cardinality(DOMAIN labels_dict) >= 2

\* Session t takes the fetch step / the write step of a save.
GetStep(t) == tabs[t].pc = "get" /\ tabs'[t].pc = "put"
PutStep(t) == tabs[t].pc = "put" /\ tabs'[t].pc = "idle"

\* C14: under every interleaving of the two sessions' fetches and writes, a
\* write whose marker is not the file's current one leaves the file as it
\* was, the file changes only in a write, and after an accepted write the
\* file is exactly the writing session's whole mapping (nothing of the other
\* session's is merged in).
C14_LaterWriteWins ==
    [][/\ file' # file => \E t \in Tabs : PutStep(t) /\ lastWrite'.accepted
       /\ \A t \in Tabs : PutStep(t) =>
            /\ lastWrite'.tab = t
            /\ lastWrite'.marker # FetchSha(file, TRUE).sha =>
                 ~lastWrite'.accepted /\ file' = file
            /\ ~lastWrite'.accepted => file' = file
            /\ lastWrite'.accepted =>
                 /\ file'.exists
                 /\ WholeMapping(file'.rows, tabs[t].labels)]_vars

\* C14 witness: session 1 fetched a marker, session 2 replaced the file, and
\* the write of session 1 with its stale marker was rejected; the file holds
\* the mapping of session 2, which differs from that of session 1.
C14_Witness ==
    /\ lastWrite.tab = 1
    /\ lastWrite.marker.present
    /\ lastWrite.marker # lastWrite.current
    /\ ~lastWrite.accepted
    /\ file.exists
    /\ WholeMapping(file.rows, tabs[2].labels)
    /\ ~WholeMapping(file.rows, tabs[1].labels)

\* C15: within a save the fetch precedes the write; the fetch returns a
\* marker only for an existing file and then its current one; the write
\* carries a marker exactly when the fetch returned one, and then that
\* marker; with no file yet or a failed fetch the write carries none.
C15_FetchThenWrite ==
    [][\A t \in Tabs :
        /\ tabs'[t].pc = "put" => tabs[t].pc \in {"get", "put"}
        /\ (tabs[t].pc = "get" /\ tabs'[t].pc # "get") => GetStep(t)
        /\ (tabs[t].pc = "idle" /\ tabs'[t].pc # "idle") => tabs'[t].pc = "get"
        /\ GetStep(t) =>
             /\ file' = file
             /\ tabs'[t].fetched.status = 200 =>
                  file.exists /\ tabs'[t].fetched.sha = ShaOf(file)
             /\ ~file.exists => tabs'[t].fetched.status # 200
        /\ PutStep(t) =>
             /\ lastWrite'.marker.present <=> tabs[t].fetched.status = 200
             /\ lastWrite'.marker.present => lastWrite'.marker = tabs[t].fetched.sha
             /\ tabs[t].fetched.status # 200 => lastWrite'.marker = NoSha]_vars

\* C15 witness: an update was written with the marker its fetch returned,
\* after a create that was written with none.
C15_Witness ==
    /\ lastWrite.tab = 2
    /\ lastWrite.marker.present
    /\ lastWrite.marker = tabs[2].fetched.sha
    /\ lastWrite.accepted
    /\ tabs[1].saves = 1
    /\ tabs[1].fetched.status = 404

\* A page number is found for call_id in the manifest.
Present(call_id) == \E n \in 1..Len(divide.lines) : PageMatches(divide.lines[n], call_id) # {}
\* seq is in ascending file name order.
AscendingNames(seq) ==
    \A i, j \in 1..Len(seq) : i < j => FileRank(seq[i]) < FileRank(seq[j])

\* C16 (as stated): with a manifest, every document for which no page number
\* is found comes after every document for which one is found; the documents
\* found are in ascending (page number, file name) order and the others in
\* ascending file name order.
C16_AbsentAfterPresent ==
    (derived = "sorted" /\ divide.exists) =>
        \A i, j \in 1..Len(resolved) : i < j =>
            LET a == resolved[i]
                b == resolved[j]
            IN /\ ~(~Present(a) /\ Present(b))
               /\ (Present(a) /\ Present(b)) =>
                     KeyLess(<<extract_page_number(divide, a), FileRank(a)>>,
                             <<extract_page_number(divide, b), FileRank(b)>>)
               /\ (~Present(a) /\ ~Present(b)) => FileRank(a) < FileRank(b)

\* C17: resolving again the same files with the same manifest gives the same
\* sequence whatever the order of the listing, with and without a manifest;
\* the sequence holds the listed documents once each, and without a manifest
\* it is in ascending file name order.
C17_SameOrderAgain ==
    [][derived' = "sorted" =>
          /\ (derived = "sorted" /\ divide' = divide
                 /\ Range(txt_listing') = Range(resolved)) => resolved' = resolved
          /\ Range(resolved') = Range(txt_listing')
          /\ Len(resolved') = Len(txt_listing')
          /\ ~divide'.exists => AscendingNames(resolved')]_vars

\* C17 witness: without a manifest the listing b, a is resolved to a, b.
C17_Witness ==
    /\ derived = "sorted"
    /\ ~divide.exists
    /\ txt_listing = <<Documents[2], Documents[1]>>
    /\ resolved = <<Documents[1], Documents[2]>>

\* The key lines of the manifest, the last line of a key, the nearest
\* destination header before a line (0 when there is none).
KeyLinesOf(lines) == {i \in 1..Len(lines) : IsKeyLine(lines[i]) /\ HasKey(lines[i])}
LastOf(lines, i) == \A j \in KeyLinesOf(lines) : KeyOf(lines[j]) = KeyOf(lines[i]) => j <= i
HeaderBefore(lines, i) ==
    LET hs == {h \in 1..(i - 1) : IsDestinationLine(lines[h])}
    IN IF hs = {} THEN 0 ELSE CHOOSE h \in hs : \A g \in hs : g <= h
\* destination_map.get(key, ""): no entry reads as the empty destination.
DestinationOf(key) == IF key \in DOMAIN destination_map THEN destination_map[key] ELSE <<>>

\* C18 (as stated): every key of a key line is mapped to the destination of
\* the nearest header before the key's last line, and has no entry when no
\* header comes before that line; the map has no other keys.
C18_NearestHeader ==
    (derived = "mapped" /\ divide.exists) =>
        /\ \A k \in DOMAIN destination_map :
             \E i \in KeyLinesOf(divide.lines) : KeyOf(divide.lines[i]) = k
        /\ \A i \in KeyLinesOf(divide.lines) : LastOf(divide.lines, i) =>
             LET h == HeaderBefore(divide.lines, i)
                 key == KeyOf(divide.lines[i])
             IN IF h = 0 THEN key \notin DOMAIN destination_map
                ELSE DestinationOf(key) = DestinationText(divide.lines[h])

====
